---- MODULE Spec2Model ----
(***************************************************************************)
(* Model of my.py: the EPG fetch -> parse -> extract -> filter -> merge -> *)
(* write pipeline.  A str is the sequence of its code points, a dict an    *)
(* ordered sequence of [k, v] entries (insertion order, overwrite in       *)
(* place), an XML element a record.                                        *)
(***************************************************************************)
EXTENDS Integers, Sequences, FiniteSets, TLC

VARIABLES
    \* fetch_epg
    max_retries, attempt, gets, sleeps, responses, fetch_state, fetch_result,
    \* extract_channels_and_programmes
    root, channel_keywords, now, extracted,
    \* filter_in_channels
    channels_dict, exclude_languages, filtered, excluded_count,
    \* module-level script
    pc, uk, au, inn, all_channels, all_programmes, combined_root, file, error

fetchVars == <<max_retries, attempt, gets, sleeps, responses, fetch_state, fetch_result>>
extractVars == <<root, channel_keywords, now, extracted>>
filterVars == <<channels_dict, exclude_languages, filtered, excluded_count>>
scriptVars == <<pc, uk, au, inn, all_channels, all_programmes, combined_root, file, error>>
vars == <<fetchVars, extractVars, filterVars, scriptVars>>

----------------------------------------------------------------------------
(* Bounds of the model *)

MaxRetriesBound == 3
MaxNames == 2
MaxKeywords == 2
MaxProgrammes == 2

----------------------------------------------------------------------------
(* str: a string is the sequence of its code points; lower(), the `in`      *)
(* operator.  The tables are those of the Unicode Character Database 14.0.0 *)

\* the code points whose lowercase mapping is another single code point:
\* <<first, last, step, offset>>
LowerRanges ==
    << <<65,90,1,32>>, <<192,214,1,32>>, <<216,222,1,32>>, <<256,302,2,1>>,
       <<306,310,2,1>>, <<313,327,2,1>>, <<330,374,2,1>>, <<376,376,1,-121>>,
       <<377,381,2,1>>, <<385,385,1,210>>, <<386,388,2,1>>, <<390,390,1,206>>,
       <<391,391,1,1>>, <<393,394,1,205>>, <<395,395,1,1>>, <<398,398,1,79>>,
       <<399,399,1,202>>, <<400,400,1,203>>, <<401,401,1,1>>, <<403,403,1,205>>,
       <<404,404,1,207>>, <<406,406,1,211>>, <<407,407,1,209>>, <<408,408,1,1>>,
       <<412,412,1,211>>, <<413,413,1,213>>, <<415,415,1,214>>, <<416,420,2,1>>,
       <<422,422,1,218>>, <<423,423,1,1>>, <<425,425,1,218>>, <<428,428,1,1>>,
       <<430,430,1,218>>, <<431,431,1,1>>, <<433,434,1,217>>, <<435,437,2,1>>,
       <<439,439,1,219>>, <<440,440,1,1>>, <<444,444,1,1>>, <<452,452,1,2>>,
       <<453,453,1,1>>, <<455,455,1,2>>, <<456,456,1,1>>, <<458,458,1,2>>,
       <<459,475,2,1>>, <<478,494,2,1>>, <<497,497,1,2>>, <<498,500,2,1>>,
       <<502,502,1,-97>>, <<503,503,1,-56>>, <<504,542,2,1>>, <<544,544,1,-130>>,
       <<546,562,2,1>>, <<570,570,1,10795>>, <<571,571,1,1>>, <<573,573,1,-163>>,
       <<574,574,1,10792>>, <<577,577,1,1>>, <<579,579,1,-195>>, <<580,580,1,69>>,
       <<581,581,1,71>>, <<582,590,2,1>>, <<880,882,2,1>>, <<886,886,1,1>>,
       <<895,895,1,116>>, <<902,902,1,38>>, <<904,906,1,37>>, <<908,908,1,64>>,
       <<910,911,1,63>>, <<913,929,1,32>>, <<931,939,1,32>>, <<975,975,1,8>>,
       <<984,1006,2,1>>, <<1012,1012,1,-60>>, <<1015,1015,1,1>>, <<1017,1017,1,-7>>,
       <<1018,1018,1,1>>, <<1021,1023,1,-130>>, <<1024,1039,1,80>>, <<1040,1071,1,32>>,
       <<1120,1152,2,1>>, <<1162,1214,2,1>>, <<1216,1216,1,15>>, <<1217,1229,2,1>>,
       <<1232,1326,2,1>>, <<1329,1366,1,48>>, <<4256,4293,1,7264>>, <<4295,4295,1,7264>>,
       <<4301,4301,1,7264>>, <<5024,5103,1,38864>>, <<5104,5109,1,8>>, <<7312,7354,1,-3008>>,
       <<7357,7359,1,-3008>>, <<7680,7828,2,1>>, <<7838,7838,1,-7615>>, <<7840,7934,2,1>>,
       <<7944,7951,1,-8>>, <<7960,7965,1,-8>>, <<7976,7983,1,-8>>, <<7992,7999,1,-8>>,
       <<8008,8013,1,-8>>, <<8025,8031,2,-8>>, <<8040,8047,1,-8>>, <<8072,8079,1,-8>>,
       <<8088,8095,1,-8>>, <<8104,8111,1,-8>>, <<8120,8121,1,-8>>, <<8122,8123,1,-74>>,
       <<8124,8124,1,-9>>, <<8136,8139,1,-86>>, <<8140,8140,1,-9>>, <<8152,8153,1,-8>>,
       <<8154,8155,1,-100>>, <<8168,8169,1,-8>>, <<8170,8171,1,-112>>, <<8172,8172,1,-7>>,
       <<8184,8185,1,-128>>, <<8186,8187,1,-126>>, <<8188,8188,1,-9>>, <<8486,8486,1,-7517>>,
       <<8490,8490,1,-8383>>, <<8491,8491,1,-8262>>, <<8498,8498,1,28>>, <<8544,8559,1,16>>,
       <<8579,8579,1,1>>, <<9398,9423,1,26>>, <<11264,11311,1,48>>, <<11360,11360,1,1>>,
       <<11362,11362,1,-10743>>, <<11363,11363,1,-3814>>, <<11364,11364,1,-10727>>, <<11367,11371,2,1>>,
       <<11373,11373,1,-10780>>, <<11374,11374,1,-10749>>, <<11375,11375,1,-10783>>, <<11376,11376,1,-10782>>,
       <<11378,11378,1,1>>, <<11381,11381,1,1>>, <<11390,11391,1,-10815>>, <<11392,11490,2,1>>,
       <<11499,11501,2,1>>, <<11506,11506,1,1>>, <<42560,42604,2,1>>, <<42624,42650,2,1>>,
       <<42786,42798,2,1>>, <<42802,42862,2,1>>, <<42873,42875,2,1>>, <<42877,42877,1,-35332>>,
       <<42878,42886,2,1>>, <<42891,42891,1,1>>, <<42893,42893,1,-42280>>, <<42896,42898,2,1>>,
       <<42902,42920,2,1>>, <<42922,42922,1,-42308>>, <<42923,42923,1,-42319>>, <<42924,42924,1,-42315>>,
       <<42925,42925,1,-42305>>, <<42926,42926,1,-42308>>, <<42928,42928,1,-42258>>, <<42929,42929,1,-42282>>,
       <<42930,42930,1,-42261>>, <<42931,42931,1,928>>, <<42932,42946,2,1>>, <<42948,42948,1,-48>>,
       <<42949,42949,1,-42307>>, <<42950,42950,1,-35384>>, <<42951,42953,2,1>>, <<42960,42960,1,1>>,
       <<42966,42968,2,1>>, <<42997,42997,1,1>>, <<65313,65338,1,32>>, <<66560,66599,1,40>>,
       <<66736,66771,1,40>>, <<66928,66938,1,39>>, <<66940,66954,1,39>>, <<66956,66962,1,39>>,
       <<66964,66965,1,39>>, <<68736,68786,1,64>>, <<71840,71871,1,32>>, <<93760,93791,1,32>>,
       <<125184,125217,1,34>> >>

\* the code points with the Case_Ignorable property: <<first, last>>
CaseIgnorableRanges ==
    << <<39,39>>, <<46,46>>, <<58,58>>, <<94,94>>, <<96,96>>, <<168,168>>,
       <<173,173>>, <<175,175>>, <<180,180>>, <<183,184>>, <<688,879>>, <<884,885>>,
       <<890,890>>, <<900,901>>, <<903,903>>, <<1155,1161>>, <<1369,1369>>, <<1375,1375>>,
       <<1425,1469>>, <<1471,1471>>, <<1473,1474>>, <<1476,1477>>, <<1479,1479>>, <<1524,1524>>,
       <<1536,1541>>, <<1552,1562>>, <<1564,1564>>, <<1600,1600>>, <<1611,1631>>, <<1648,1648>>,
       <<1750,1757>>, <<1759,1768>>, <<1770,1773>>, <<1807,1807>>, <<1809,1809>>, <<1840,1866>>,
       <<1958,1968>>, <<2027,2037>>, <<2042,2042>>, <<2045,2045>>, <<2070,2093>>, <<2137,2139>>,
       <<2184,2184>>, <<2192,2193>>, <<2200,2207>>, <<2249,2306>>, <<2362,2362>>, <<2364,2364>>,
       <<2369,2376>>, <<2381,2381>>, <<2385,2391>>, <<2402,2403>>, <<2417,2417>>, <<2433,2433>>,
       <<2492,2492>>, <<2497,2500>>, <<2509,2509>>, <<2530,2531>>, <<2558,2558>>, <<2561,2562>>,
       <<2620,2620>>, <<2625,2626>>, <<2631,2632>>, <<2635,2637>>, <<2641,2641>>, <<2672,2673>>,
       <<2677,2677>>, <<2689,2690>>, <<2748,2748>>, <<2753,2757>>, <<2759,2760>>, <<2765,2765>>,
       <<2786,2787>>, <<2810,2815>>, <<2817,2817>>, <<2876,2876>>, <<2879,2879>>, <<2881,2884>>,
       <<2893,2893>>, <<2901,2902>>, <<2914,2915>>, <<2946,2946>>, <<3008,3008>>, <<3021,3021>>,
       <<3072,3072>>, <<3076,3076>>, <<3132,3132>>, <<3134,3136>>, <<3142,3144>>, <<3146,3149>>,
       <<3157,3158>>, <<3170,3171>>, <<3201,3201>>, <<3260,3260>>, <<3263,3263>>, <<3270,3270>>,
       <<3276,3277>>, <<3298,3299>>, <<3328,3329>>, <<3387,3388>>, <<3393,3396>>, <<3405,3405>>,
       <<3426,3427>>, <<3457,3457>>, <<3530,3530>>, <<3538,3540>>, <<3542,3542>>, <<3633,3633>>,
       <<3636,3642>>, <<3654,3662>>, <<3761,3761>>, <<3764,3772>>, <<3782,3782>>, <<3784,3789>>,
       <<3864,3865>>, <<3893,3893>>, <<3895,3895>>, <<3897,3897>>, <<3953,3966>>, <<3968,3972>>,
       <<3974,3975>>, <<3981,3991>>, <<3993,4028>>, <<4038,4038>>, <<4141,4144>>, <<4146,4151>>,
       <<4153,4154>>, <<4157,4158>>, <<4184,4185>>, <<4190,4192>>, <<4209,4212>>, <<4226,4226>>,
       <<4229,4230>>, <<4237,4237>>, <<4253,4253>>, <<4348,4348>>, <<4957,4959>>, <<5906,5908>>,
       <<5938,5939>>, <<5970,5971>>, <<6002,6003>>, <<6068,6069>>, <<6071,6077>>, <<6086,6086>>,
       <<6089,6099>>, <<6103,6103>>, <<6109,6109>>, <<6155,6159>>, <<6211,6211>>, <<6277,6278>>,
       <<6313,6313>>, <<6432,6434>>, <<6439,6440>>, <<6450,6450>>, <<6457,6459>>, <<6679,6680>>,
       <<6683,6683>>, <<6742,6742>>, <<6744,6750>>, <<6752,6752>>, <<6754,6754>>, <<6757,6764>>,
       <<6771,6780>>, <<6783,6783>>, <<6823,6823>>, <<6832,6862>>, <<6912,6915>>, <<6964,6964>>,
       <<6966,6970>>, <<6972,6972>>, <<6978,6978>>, <<7019,7027>>, <<7040,7041>>, <<7074,7077>>,
       <<7080,7081>>, <<7083,7085>>, <<7142,7142>>, <<7144,7145>>, <<7149,7149>>, <<7151,7153>>,
       <<7212,7219>>, <<7222,7223>>, <<7288,7293>>, <<7376,7378>>, <<7380,7392>>, <<7394,7400>>,
       <<7405,7405>>, <<7412,7412>>, <<7416,7417>>, <<7468,7530>>, <<7544,7544>>, <<7579,7679>>,
       <<8125,8125>>, <<8127,8129>>, <<8141,8143>>, <<8157,8159>>, <<8173,8175>>, <<8189,8190>>,
       <<8203,8207>>, <<8216,8217>>, <<8228,8228>>, <<8231,8231>>, <<8234,8238>>, <<8288,8292>>,
       <<8294,8303>>, <<8305,8305>>, <<8319,8319>>, <<8336,8348>>, <<8400,8432>>, <<11388,11389>>,
       <<11503,11505>>, <<11631,11631>>, <<11647,11647>>, <<11744,11775>>, <<11823,11823>>, <<12293,12293>>,
       <<12330,12333>>, <<12337,12341>>, <<12347,12347>>, <<12441,12446>>, <<12540,12542>>, <<40981,40981>>,
       <<42232,42237>>, <<42508,42508>>, <<42607,42610>>, <<42612,42621>>, <<42623,42623>>, <<42652,42655>>,
       <<42736,42737>>, <<42752,42785>>, <<42864,42864>>, <<42888,42890>>, <<42994,42996>>, <<43000,43001>>,
       <<43010,43010>>, <<43014,43014>>, <<43019,43019>>, <<43045,43046>>, <<43052,43052>>, <<43204,43205>>,
       <<43232,43249>>, <<43263,43263>>, <<43302,43309>>, <<43335,43345>>, <<43392,43394>>, <<43443,43443>>,
       <<43446,43449>>, <<43452,43453>>, <<43471,43471>>, <<43493,43494>>, <<43561,43566>>, <<43569,43570>>,
       <<43573,43574>>, <<43587,43587>>, <<43596,43596>>, <<43632,43632>>, <<43644,43644>>, <<43696,43696>>,
       <<43698,43700>>, <<43703,43704>>, <<43710,43711>>, <<43713,43713>>, <<43741,43741>>, <<43756,43757>>,
       <<43763,43764>>, <<43766,43766>>, <<43867,43871>>, <<43881,43883>>, <<44005,44005>>, <<44008,44008>>,
       <<44013,44013>>, <<64286,64286>>, <<64434,64450>>, <<65024,65039>>, <<65043,65043>>, <<65056,65071>>,
       <<65106,65106>>, <<65109,65109>>, <<65279,65279>>, <<65287,65287>>, <<65294,65294>>, <<65306,65306>>,
       <<65342,65342>>, <<65344,65344>>, <<65392,65392>>, <<65438,65439>>, <<65507,65507>>, <<65529,65531>>,
       <<66045,66045>>, <<66272,66272>>, <<66422,66426>>, <<67456,67461>>, <<67463,67504>>, <<67506,67514>>,
       <<68097,68099>>, <<68101,68102>>, <<68108,68111>>, <<68152,68154>>, <<68159,68159>>, <<68325,68326>>,
       <<68900,68903>>, <<69291,69292>>, <<69446,69456>>, <<69506,69509>>, <<69633,69633>>, <<69688,69702>>,
       <<69744,69744>>, <<69747,69748>>, <<69759,69761>>, <<69811,69814>>, <<69817,69818>>, <<69821,69821>>,
       <<69826,69826>>, <<69837,69837>>, <<69888,69890>>, <<69927,69931>>, <<69933,69940>>, <<70003,70003>>,
       <<70016,70017>>, <<70070,70078>>, <<70089,70092>>, <<70095,70095>>, <<70191,70193>>, <<70196,70196>>,
       <<70198,70199>>, <<70206,70206>>, <<70367,70367>>, <<70371,70378>>, <<70400,70401>>, <<70459,70460>>,
       <<70464,70464>>, <<70502,70508>>, <<70512,70516>>, <<70712,70719>>, <<70722,70724>>, <<70726,70726>>,
       <<70750,70750>>, <<70835,70840>>, <<70842,70842>>, <<70847,70848>>, <<70850,70851>>, <<71090,71093>>,
       <<71100,71101>>, <<71103,71104>>, <<71132,71133>>, <<71219,71226>>, <<71229,71229>>, <<71231,71232>>,
       <<71339,71339>>, <<71341,71341>>, <<71344,71349>>, <<71351,71351>>, <<71453,71455>>, <<71458,71461>>,
       <<71463,71467>>, <<71727,71735>>, <<71737,71738>>, <<71995,71996>>, <<71998,71998>>, <<72003,72003>>,
       <<72148,72151>>, <<72154,72155>>, <<72160,72160>>, <<72193,72202>>, <<72243,72248>>, <<72251,72254>>,
       <<72263,72263>>, <<72273,72278>>, <<72281,72283>>, <<72330,72342>>, <<72344,72345>>, <<72752,72758>>,
       <<72760,72765>>, <<72767,72767>>, <<72850,72871>>, <<72874,72880>>, <<72882,72883>>, <<72885,72886>>,
       <<73009,73014>>, <<73018,73018>>, <<73020,73021>>, <<73023,73029>>, <<73031,73031>>, <<73104,73105>>,
       <<73109,73109>>, <<73111,73111>>, <<73459,73460>>, <<78896,78904>>, <<92912,92916>>, <<92976,92982>>,
       <<92992,92995>>, <<94031,94031>>, <<94095,94111>>, <<94176,94177>>, <<94179,94180>>, <<110576,110579>>,
       <<110581,110587>>, <<110589,110590>>, <<113821,113822>>, <<113824,113827>>, <<118528,118573>>, <<118576,118598>>,
       <<119143,119145>>, <<119155,119170>>, <<119173,119179>>, <<119210,119213>>, <<119362,119364>>, <<121344,121398>>,
       <<121403,121452>>, <<121461,121461>>, <<121476,121476>>, <<121499,121503>>, <<121505,121519>>, <<122880,122886>>,
       <<122888,122904>>, <<122907,122913>>, <<122915,122916>>, <<122918,122922>>, <<123184,123197>>, <<123566,123566>>,
       <<123628,123631>>, <<125136,125142>>, <<125252,125259>>, <<127995,127999>>, <<917505,917505>>, <<917536,917631>>,
       <<917760,917999>> >>

\* the code points with the Cased property and without Case_Ignorable:
\* <<first, last>>
CasedRanges ==
    << <<65,90>>, <<97,122>>, <<170,170>>, <<181,181>>, <<186,186>>, <<192,214>>,
       <<216,246>>, <<248,442>>, <<444,447>>, <<452,659>>, <<661,687>>, <<880,883>>,
       <<886,887>>, <<891,893>>, <<895,895>>, <<902,902>>, <<904,906>>, <<908,908>>,
       <<910,929>>, <<931,1013>>, <<1015,1153>>, <<1162,1327>>, <<1329,1366>>, <<1376,1416>>,
       <<4256,4293>>, <<4295,4295>>, <<4301,4301>>, <<4304,4346>>, <<4349,4351>>, <<5024,5109>>,
       <<5112,5117>>, <<7296,7304>>, <<7312,7354>>, <<7357,7359>>, <<7424,7467>>, <<7531,7543>>,
       <<7545,7578>>, <<7680,7957>>, <<7960,7965>>, <<7968,8005>>, <<8008,8013>>, <<8016,8023>>,
       <<8025,8025>>, <<8027,8027>>, <<8029,8029>>, <<8031,8061>>, <<8064,8116>>, <<8118,8124>>,
       <<8126,8126>>, <<8130,8132>>, <<8134,8140>>, <<8144,8147>>, <<8150,8155>>, <<8160,8172>>,
       <<8178,8180>>, <<8182,8188>>, <<8450,8450>>, <<8455,8455>>, <<8458,8467>>, <<8469,8469>>,
       <<8473,8477>>, <<8484,8484>>, <<8486,8486>>, <<8488,8488>>, <<8490,8493>>, <<8495,8500>>,
       <<8505,8505>>, <<8508,8511>>, <<8517,8521>>, <<8526,8526>>, <<8544,8575>>, <<8579,8580>>,
       <<9398,9449>>, <<11264,11387>>, <<11390,11492>>, <<11499,11502>>, <<11506,11507>>, <<11520,11557>>,
       <<11559,11559>>, <<11565,11565>>, <<42560,42605>>, <<42624,42651>>, <<42786,42863>>, <<42865,42887>>,
       <<42891,42894>>, <<42896,42954>>, <<42960,42961>>, <<42963,42963>>, <<42965,42969>>, <<42997,42998>>,
       <<43002,43002>>, <<43824,43866>>, <<43872,43880>>, <<43888,43967>>, <<64256,64262>>, <<64275,64279>>,
       <<65313,65338>>, <<65345,65370>>, <<66560,66639>>, <<66736,66771>>, <<66776,66811>>, <<66928,66938>>,
       <<66940,66954>>, <<66956,66962>>, <<66964,66965>>, <<66967,66977>>, <<66979,66993>>, <<66995,67001>>,
       <<67003,67004>>, <<68736,68786>>, <<68800,68850>>, <<71840,71903>>, <<93760,93823>>, <<119808,119892>>,
       <<119894,119964>>, <<119966,119967>>, <<119970,119970>>, <<119973,119974>>, <<119977,119980>>, <<119982,119993>>,
       <<119995,119995>>, <<119997,120003>>, <<120005,120069>>, <<120071,120074>>, <<120077,120084>>, <<120086,120092>>,
       <<120094,120121>>, <<120123,120126>>, <<120128,120132>>, <<120134,120134>>, <<120138,120144>>, <<120146,120485>>,
       <<120488,120512>>, <<120514,120538>>, <<120540,120570>>, <<120572,120596>>, <<120598,120628>>, <<120630,120654>>,
       <<120656,120686>>, <<120688,120712>>, <<120714,120744>>, <<120746,120770>>, <<120772,120779>>, <<122624,122633>>,
       <<122635,122654>>, <<125184,125251>>, <<127280,127305>>, <<127312,127337>>, <<127344,127369>> >>

InRanges(c, ranges) == \E i \in 1..Len(ranges) : ranges[i][1] <= c /\ c <= ranges[i][2]

IsCaseIgnorable(c) == InRanges(c, CaseIgnorableRanges)

IsCased(c) == InRanges(c, CasedRanges)

InLowerRange(c, r) == r[1] <= c /\ c <= r[2] /\ (c - r[1]) % r[3] = 0

\* the lowercase of one code point other than U+03A3 and U+0130
LowerChar(c) ==
    IF c < 128 THEN (IF 65 <= c /\ c <= 90 THEN c + 32 ELSE c)
    ELSE IF \E i \in 1..Len(LowerRanges) : InLowerRange(c, LowerRanges[i])
    THEN c + LowerRanges[CHOOSE i \in 1..Len(LowerRanges) : InLowerRange(c, LowerRanges[i])][4]
    ELSE c

\* U+03A3 at s[i] is a final sigma: before it a cased letter, after it none
\* (case-ignorable code points skipped on both sides)
FinalSigma(s, i) ==
    /\ \E j \in 1..(i - 1) :
          /\ IsCased(s[j]) /\ ~IsCaseIgnorable(s[j])
          /\ \A k \in (j + 1)..(i - 1) : IsCaseIgnorable(s[k])
    /\ ~\E j \in (i + 1)..Len(s) :
          /\ IsCased(s[j]) /\ ~IsCaseIgnorable(s[j])
          /\ \A k \in (i + 1)..(j - 1) : IsCaseIgnorable(s[k])

\* the lowercase of s[i]: U+03A3 gives U+03C2 or U+03C3, U+0130 gives two
\* code points
LowerAt(s, i) ==
    IF s[i] = 931 THEN <<IF FinalSigma(s, i) THEN 962 ELSE 963>>
    ELSE IF s[i] = 304 THEN <<105, 775>>
    ELSE <<LowerChar(s[i])>>

RECURSIVE LowerFrom(_, _)
LowerFrom(s, i) == IF i > Len(s) THEN <<>> ELSE LowerAt(s, i) \o LowerFrom(s, i + 1)

\* s.lower()
StrLower(s) == LowerFrom(s, 1)

\* sub in s
StrIn(sub, s) ==
    \E i \in 0..(Len(s) - Len(sub)) : SubSeq(s, i + 1, i + Len(sub)) = sub

----------------------------------------------------------------------------
(* dict *)

EmptyDict == <<>>

DictKeys(d) == {d[i].k : i \in 1..Len(d)}

DictHas(d, key) == \E i \in 1..Len(d) : d[i].k = key

DictGet(d, key) == d[CHOOSE i \in 1..Len(d) : d[i].k = key].v

\* d[key] = value
DictSet(d, key, value) ==
    IF DictHas(d, key)
    THEN [i \in 1..Len(d) |-> IF d[i].k = key THEN [k |-> key, v |-> value] ELSE d[i]]
    ELSE Append(d, [k |-> key, v |-> value])

\* {**d, **e}
RECURSIVE DictUpdate(_, _)
DictUpdate(d, e) ==
    IF e = <<>> THEN d
    ELSE DictUpdate(DictSet(d, Head(e).k, Head(e).v), Tail(e))

----------------------------------------------------------------------------
(* The documents: XML text, the parsed tree *)

EmptyDoc == [channels |-> <<>>, programmes |-> <<>>]

\* the text of a response: its length, whether it is well-formed XML, its tree
ShortText == [len |-> 42,   wellformed |-> FALSE, doc |-> EmptyDoc]
ShortXml == [len |-> 5,    wellformed |-> TRUE,  doc |-> EmptyDoc]
MalformedText == [len |-> 5000, wellformed |-> FALSE, doc |-> EmptyDoc]
NoText == [len |-> 0,    wellformed |-> FALSE, doc |-> EmptyDoc]

XmlText(doc) == [len |-> 5000, wellformed |-> TRUE, doc |-> doc]

----------------------------------------------------------------------------
(* fetch_epg *)

DefaultMaxRetries == 3

\* What requests.get + raise_for_status can do on one attempt.
TransportFailures == {[kind |-> "status"], [kind |-> "connection"], [kind |-> "timeout"]}

\* A 2xx body: gzip framing ("none", "valid", "corrupt"), whether the payload
\* bytes are valid UTF-8, and the text they encode.
Bodies(texts) ==
    [gzip : {"none", "valid", "corrupt"}, utf8 : BOOLEAN, text : texts]

OkResponses(texts) == {[kind |-> "ok", body |-> b] : b \in Bodies(texts)}

\* gzip.GzipFile(fileobj=BytesIO(content)).read(): the payload bytes, or an
\* exception when the content is not a gzip stream (an empty content reads as
\* empty bytes).
GzipRead(body) ==
    IF body.gzip = "valid" \/ (body.gzip = "none" /\ body.text.len = 0)
    THEN [ok |-> TRUE, utf8 |-> body.utf8, text |-> body.text]
    ELSE [ok |-> FALSE, utf8 |-> FALSE, text |-> NoText]

\* content.decode('utf-8') of the raw content: a gzip stream starts with the
\* bytes 1f 8b, which are not UTF-8.
RawDecode(body) ==
    IF body.gzip = "none" /\ body.utf8
    THEN [ok |-> TRUE, text |-> body.text]
    ELSE [ok |-> FALSE, text |-> NoText]

\* One pass of the loop body, lines 15-31: the text returned, or an exception
\* caught by `except Exception`.
AttemptOutcome(r) ==
    IF r.kind # "ok" THEN [returns |-> FALSE, text |-> NoText]
    ELSE LET gz == GzipRead(r.body) IN
         IF gz.ok /\ gz.utf8 THEN [returns |-> TRUE, text |-> gz.text]
         ELSE LET raw == RawDecode(r.body) IN
              [returns |-> raw.ok, text |-> raw.text]

RECURSIVE Pow2(_)
Pow2(n) == IF n = 0 THEN 1 ELSE 2 * Pow2(n - 1)

\* 2 ** attempt
Backoff(a) == Pow2(a)

SleepsAfterEveryFailure(a, mr) == a < mr

\* if attempt < max_retries - 1
SleepsAfterFailure(a, mr) == a < mr - 1

\* for attempt in range(max_retries)
LoopContinues(a, mr) == a < mr

FetchIdle ==
    /\ max_retries = 0 /\ attempt = 0 /\ gets = 0 /\ sleeps = <<>>
    /\ responses = <<>> /\ fetch_state = "idle" /\ fetch_result = NoText

\* fetch_epg(url, max_retries) is called
FetchStart(mr) ==
    /\ max_retries' = mr /\ attempt' = 0 /\ gets' = 0 /\ sleeps' = <<>>
    /\ responses' = <<>> /\ fetch_state' = "running" /\ fetch_result' = NoText

\* one iteration of the for loop, the server answering r
FetchAttempt(r) ==
    /\ fetch_state = "running"
    /\ LoopContinues(attempt, max_retries)
    /\ gets' = gets + 1
    /\ responses' = Append(responses, r)
    /\ LET out == AttemptOutcome(r) IN
       IF out.returns
       THEN /\ fetch_state' = "returned"
            /\ fetch_result' = out.text
            /\ UNCHANGED <<attempt, sleeps>>
       ELSE /\ sleeps' = IF SleepsAfterFailure(attempt, max_retries)
                         THEN Append(sleeps, Backoff(attempt))
                         ELSE sleeps
            /\ attempt' = attempt + 1
            /\ UNCHANGED <<fetch_state, fetch_result>>
    /\ UNCHANGED max_retries

\* the loop is exhausted: raise Exception("Failed to fetch ...")
FetchRaise ==
    /\ fetch_state = "running"
    /\ ~LoopContinues(attempt, max_retries)
    /\ fetch_state' = "raised"
    /\ UNCHANGED <<max_retries, attempt, gets, sleeps, responses, fetch_result>>

----------------------------------------------------------------------------
(* parse_epg *)

MinXmlLen == 100

\* the tree, or the exception raised (ValueError for a short text,
\* ET.ParseError for malformed markup)
ParseEpg(text) ==
    IF text.len < MinXmlLen THEN [ok |-> FALSE, error |-> "ValueError", doc |-> EmptyDoc]
    ELSE IF ~text.wellformed THEN [ok |-> FALSE, error |-> "ParseError", doc |-> EmptyDoc]
    ELSE [ok |-> TRUE, error |-> "none", doc |-> text.doc]

----------------------------------------------------------------------------
(* datetime: a naive datetime is <<year, month, day, hour, minute, second,   *)
(* microsecond>>, ordered lexicographically                                  *)

\* the zeros of the decimal digits (category Nd): each is followed by its 1..9
DigitZeros ==
    { 48, 1632, 1776, 1984, 2406, 2534, 2662, 2790, 2918, 3046,
      3174, 3302, 3430, 3558, 3664, 3792, 3872, 4160, 4240, 6112,
      6160, 6470, 6608, 6784, 6800, 6992, 7088, 7232, 7248, 42528,
      43216, 43264, 43472, 43504, 43600, 44016, 65296, 66720, 68912, 69734,
      69872, 69942, 70096, 70384, 70736, 70864, 71248, 71360, 71472, 71904,
      72016, 72784, 73040, 73120, 92768, 92864, 93008, 120782, 120792, 120802,
      120812, 120822, 123200, 123632, 125264, 130032 }

\* \d
IsDigit(c) ==
    IF c < 128 THEN 48 <= c /\ c <= 57
    ELSE \E z \in DigitZeros : z <= c /\ c <= z + 9

\* int() of one digit
DigitVal(c) == c - (CHOOSE z \in DigitZeros : z <= c /\ c <= z + 9)

IsLeap(y) == (y % 4 = 0 /\ y % 100 # 0) \/ y % 400 = 0

DaysInMonth(y, m) ==
    IF m = 2 THEN (IF IsLeap(y) THEN 29 ELSE 28)
    ELSE IF m \in {4, 6, 9, 11} THEN 30 ELSE 31

\* The fields of '%Y%m%d%H%M' on a 12-character string: every field takes
\* its full width (4, 2, 2, 2, 2) or characters remain unconverted.  \d is
\* any decimal digit; a digit written out in the pattern is the ASCII one
\* (48..57, the space is 32).
\* \d\d\d\d
YearField(s) ==
    IF \A i \in 1..4 : IsDigit(s[i])
    THEN 1000 * DigitVal(s[1]) + 100 * DigitVal(s[2]) + 10 * DigitVal(s[3]) + DigitVal(s[4])
    ELSE -1

\* 1[0-2]|0[1-9]
MonthField(a, b) ==
    IF \/ (a = 49 /\ b \in 48..50)
       \/ (a = 48 /\ b \in 49..57)
    THEN 10 * (a - 48) + (b - 48) ELSE -1

\* 3[0-1]|[1-2]\d|0[1-9]| [1-9]
DayField(a, b) ==
    IF \/ (a = 51 /\ b \in 48..49)
       \/ (a \in 49..50 /\ IsDigit(b))
       \/ (a = 48 /\ b \in 49..57)
    THEN 10 * (a - 48) + DigitVal(b)
    ELSE IF a = 32 /\ b \in 49..57 THEN b - 48 ELSE -1

\* 2[0-3]|[0-1]\d
HourField(a, b) ==
    IF \/ (a = 50 /\ b \in 48..51)
       \/ (a \in 48..49 /\ IsDigit(b))
    THEN 10 * (a - 48) + DigitVal(b) ELSE -1

\* [0-5]\d
MinuteField(a, b) ==
    IF a \in 48..53 /\ IsDigit(b)
    THEN 10 * (a - 48) + DigitVal(b) ELSE -1

NoDate == <<0, 0, 0, 0, 0, 0, 0>>

\* datetime.strptime(s, '%Y%m%d%H%M') for Len(s) = 12: the datetime, or
\* ValueError
Strptime(s) ==
    LET y  == YearField(s)
        mo == MonthField(s[5], s[6])
        d  == DayField(s[7], s[8])
        h  == HourField(s[9], s[10])
        mi == MinuteField(s[11], s[12])
    IN  IF y >= 1 /\ mo >= 1 /\ d >= 1 /\ h >= 0 /\ mi >= 0 /\ d <= DaysInMonth(y, mo)
        THEN [ok |-> TRUE, dt |-> <<y, mo, d, h, mi, 0, 0>>]
        ELSE [ok |-> FALSE, dt |-> NoDate]

\* a <= b
DateLE(a, b) ==
    \/ a = b
    \/ \E i \in 1..7 : a[i] < b[i] /\ \A j \in 1..(i - 1) : a[j] = b[j]

WindowDays == 7

\* dt + timedelta(days=n), n at most 28
AddDays(dt, n) ==
    LET dim == DaysInMonth(dt[1], dt[2])
        d2  == dt[3] + n
    IN  IF d2 <= dim THEN [dt EXCEPT ![3] = d2]
        ELSE IF dt[2] = 12 THEN [dt EXCEPT ![1] = dt[1] + 1, ![2] = 1, ![3] = d2 - dim]
        ELSE [dt EXCEPT ![2] = dt[2] + 1, ![3] = d2 - dim]

----------------------------------------------------------------------------
(* extract_channels_and_programmes *)

\* channel_keywords: None, or a list of keywords
NoKeywords == [none |-> TRUE, list |-> <<>>]
Keywords(list) == [none |-> FALSE, list |-> list]

NonEmptyText(t) == t # <<>>

\* [dn.text for dn in channel.findall('display-name') if dn.text]
DisplayNames(ch) == SelectSeq(ch.names, NonEmptyText)

KeywordInAnyNameCaseSensitive(keyword, names) ==
    \E j \in 1..Len(names) : StrIn(StrLower(keyword), names[j])

\* any(keyword.lower() in name.lower() for name in display_names)
KeywordInAnyName(keyword, names) ==
    \E j \in 1..Len(names) : StrIn(StrLower(keyword), StrLower(names[j]))

\* for keyword in channel_keywords: if any(...): ...; break
RECURSIVE KeywordLoop(_, _)
KeywordLoop(keywords, names) ==
    IF keywords = <<>> THEN FALSE
    ELSE IF KeywordInAnyName(Head(keywords), names) THEN TRUE
    ELSE KeywordLoop(Tail(keywords), names)

\* lines 49-59: the loop over root.findall('.//channel')
RECURSIVE SelectChannels(_, _, _)
SelectChannels(chs, kw, acc) ==
    IF chs = <<>> THEN acc
    ELSE LET ch == Head(chs) IN
         SelectChannels(Tail(chs), kw,
             IF kw.none \/ KeywordLoop(kw.list, DisplayNames(ch))
             THEN DictSet(acc, ch.id, ch)
             ELSE acc)

MinStartLen == 12

\* now <= start_dt <= future_cutoff
InWindow(start_dt, nw) ==
    DateLE(nw, start_dt) /\ DateLE(start_dt, AddDays(nw, WindowDays))

\* lines 66-74: the loop over root.findall('.//programme'); strptime's
\* ValueError leaves the function
RECURSIVE SelectProgrammes(_, _, _, _)
SelectProgrammes(ps, channels, nw, acc) ==
    IF ps = <<>> THEN [status |-> "ok", programmes |-> acc]
    ELSE LET p == Head(ps) IN
         IF ~DictHas(channels, p.channel)
         THEN SelectProgrammes(Tail(ps), channels, nw, acc)
         ELSE IF Len(p.start) >= MinStartLen
         THEN LET parsed == Strptime(SubSeq(p.start, 1, 12)) IN
              IF ~parsed.ok THEN [status |-> "ValueError", programmes |-> acc]
              ELSE IF InWindow(parsed.dt, nw)
              THEN SelectProgrammes(Tail(ps), channels, nw, Append(acc, p))
              ELSE SelectProgrammes(Tail(ps), channels, nw, acc)
         ELSE SelectProgrammes(Tail(ps), channels, nw, Append(acc, p))

\* extract_channels_and_programmes(root, channel_keywords) called at time nw
Extract(doc, kw, nw) ==
    LET channels == SelectChannels(doc.channels, kw, EmptyDict)
        progs    == SelectProgrammes(doc.programmes, channels, nw, <<>>)
    IN  [status |-> progs.status, channels |-> channels, programmes |-> progs.programmes]

NotExtracted == [status |-> "none", channels |-> EmptyDict, programmes |-> <<>>]

ExtractIdle ==
    /\ root = EmptyDoc /\ channel_keywords = NoKeywords /\ now = NoDate
    /\ extracted = NotExtracted

ExtractCall ==
    /\ extracted.status = "none"
    /\ extracted' = Extract(root, channel_keywords, now)
    /\ UNCHANGED <<root, channel_keywords, now>>

----------------------------------------------------------------------------
(* filter_in_channels *)

ExcludedFirstNameOnly(ch, langs) ==
    LET display_names == [j \in 1..Len(DisplayNames(ch)) |-> StrLower(DisplayNames(ch)[j])]
    IN  /\ display_names # <<>>
        /\ \E i \in 1..Len(langs) : StrIn(StrLower(langs[i]), display_names[1])

\* lines 84-90: exclude_lang
ExcludeLang(ch, langs) ==
    LET display_names == [j \in 1..Len(DisplayNames(ch)) |-> StrLower(DisplayNames(ch)[j])]
    IN  \E j \in 1..Len(display_names) :
            \E i \in 1..Len(langs) : StrIn(StrLower(langs[i]), display_names[j])

\* lines 83-95: the loop over channels_dict.items()
RECURSIVE FilterLoop(_, _, _)
FilterLoop(items, langs, acc) ==
    IF items = <<>> THEN acc
    ELSE LET ch_id == Head(items).k
             ch    == Head(items).v
         IN  FilterLoop(Tail(items), langs,
                 IF ~ExcludeLang(ch, langs)
                 THEN [acc EXCEPT !.filtered_channels = DictSet(@, ch_id, ch)]
                 ELSE [acc EXCEPT !.excluded_count = @ + 1])

\* filter_in_channels(channels_dict, exclude_languages): the mapping returned
\* and the count printed
FilterInChannels(d, langs) ==
    FilterLoop(d, langs, [filtered_channels |-> EmptyDict, excluded_count |-> 0])

FilterIdle ==
    /\ channels_dict = EmptyDict /\ exclude_languages = <<>>
    /\ filtered = [done |-> FALSE, channels |-> EmptyDict] /\ excluded_count = 0

FilterCall ==
    /\ ~filtered.done
    /\ LET r == FilterInChannels(channels_dict, exclude_languages) IN
       /\ filtered' = [done |-> TRUE, channels |-> r.filtered_channels]
       /\ excluded_count' = r.excluded_count
    /\ UNCHANGED <<channels_dict, exclude_languages>>

----------------------------------------------------------------------------
(* create_combined_epg *)

NoTree == [generator |-> "none", channels |-> <<>>, programmes |-> <<>>]

\* the tv element: its generator attribute, then the channel elements, then
\* the programme elements
CreateCombinedEpg(d, progs) ==
    [generator  |-> "Custom Sports EPG Fetcher",
     channels   |-> [i \in 1..Len(d) |-> d[i].v],
     programmes |-> progs]

----------------------------------------------------------------------------
(* The module-level script, lines 116-187 *)

UK_KEYWORDS == Keywords(<< <<115, 107, 121>>,  \* "sky"
                           <<116, 110, 116, 32, 115, 112, 111, 114, 116, 115>>,  \* "tnt sports"
                           <<115, 107, 121, 115, 112>> >>)  \* "skysp"
AU_KEYWORDS == Keywords(<< <<102, 111, 120>>,  \* "fox"
                           <<99, 104, 97, 110, 110, 101, 108, 32, 55>> >>)  \* "channel 7"
IN_KEYWORDS == NoKeywords

EXCLUDE_LANGUAGES ==
    << <<116, 97, 109, 105, 108>>, <<116, 101, 108, 117, 103, 117>>, <<111, 114, 105, 121, 97>>,  \* "tamil", "telugu", "oriya"
       <<103, 117, 106, 97, 114, 97, 116, 105>>, <<107, 97, 110, 110, 97, 100, 97>>,  \* "gujarati", "kannada"
       <<109, 97, 108, 97, 121, 97, 108, 97, 109>>, <<98, 104, 111, 106, 112, 117, 114, 105>>,  \* "malayalam", "bhojpuri"
       <<112, 117, 110, 106, 97, 98, 105>>, <<109, 97, 114, 97, 116, 104, 105>> >>  \* "punjabi", "marathi"

Sources == {"uk", "au", "in"}

KeywordsOf(s) ==
    IF s = "uk" THEN UK_KEYWORDS ELSE IF s = "au" THEN AU_KEYWORDS ELSE IN_KEYWORDS

\* the statement that follows a source's extraction
AfterSource(s) == IF s = "uk" THEN "au" ELSE IF s = "au" THEN "in" ELSE "combine"

NoError == [kind |-> "none", fn |-> "none", at |-> "none"]

KeepAllProgrammes(progs, channels) == progs

\* [p for p in in_programmes if p.attrib['channel'] in filtered_in_channels]
RefilterProgrammes(progs, channels) ==
    LET InFiltered(p) == DictHas(channels, p.channel)
    IN  SelectSeq(progs, InFiltered)

MergeChannelsFirstWins(u, a, i) ==
    DictUpdate(DictUpdate(DictUpdate(EmptyDict, i), a), u)

\* {**uk_channels, **au_channels, **filtered_in_channels}
MergeChannels(u, a, i) ==
    DictUpdate(DictUpdate(DictUpdate(EmptyDict, u), a), i)

\* a failed attempt of the source's fetch: log, sleep, next attempt
ScriptFetchRetry(r) ==
    /\ pc \in Sources
    /\ ~AttemptOutcome(r).returns
    /\ FetchAttempt(r)
    /\ UNCHANGED <<extractVars, filterVars, scriptVars>>

\* the attempt that returns the text: fetch_epg returns, then parse_epg and
\* extract_channels_and_programmes run on it (at time nw), and the next
\* source's fetch_epg is called; an exception goes to line 184
ScriptFetched(r, nw) ==
    /\ pc \in Sources
    /\ fetch_state = "running"
    /\ LoopContinues(attempt, max_retries)
    /\ AttemptOutcome(r).returns
    /\ LET parsed == ParseEpg(AttemptOutcome(r).text)
           ex     == Extract([channels |-> [i \in 1..Len(parsed.doc.channels) |->
                                               [parsed.doc.channels[i] EXCEPT !.src = pc]],
                              programmes |-> [i \in 1..Len(parsed.doc.programmes) |->
                                               [parsed.doc.programmes[i] EXCEPT !.src = pc]]],
                             KeywordsOf(pc), nw)
       IN  IF ~parsed.ok \/ ex.status # "ok"
           THEN /\ FetchAttempt(r)
                /\ pc' = "failed"
                /\ error' = [kind |-> IF ~parsed.ok THEN parsed.error ELSE ex.status,
                             fn |-> IF ~parsed.ok THEN "parse_epg"
                                    ELSE "extract_channels_and_programmes",
                             at |-> pc]
                /\ UNCHANGED <<uk, au, inn>>
           ELSE /\ uk'  = IF pc = "uk" THEN ex ELSE uk
                /\ au'  = IF pc = "au" THEN ex ELSE au
                /\ inn' = IF pc = "in" THEN ex ELSE inn
                /\ pc'  = AfterSource(pc)
                /\ error' = error
                /\ IF AfterSource(pc) \in Sources
                   THEN FetchStart(DefaultMaxRetries)
                   ELSE /\ max_retries' = 0 /\ attempt' = 0 /\ gets' = 0 /\ sleeps' = <<>>
                        /\ responses' = <<>> /\ fetch_state' = "idle"
                        /\ fetch_result' = NoText
    /\ UNCHANGED <<extractVars, filterVars, all_channels, all_programmes, combined_root, file>>

\* fetch_epg raises after its last attempt; the exception goes to line 184
ScriptFetchFailed ==
    /\ pc \in Sources
    /\ FetchRaise
    /\ pc' = "failed"
    /\ error' = [kind |-> "Exception", fn |-> "fetch_epg", at |-> pc]
    /\ UNCHANGED <<extractVars, filterVars, uk, au, inn, all_channels, all_programmes,
                   combined_root, file>>

\* lines 146-171: filter the IN channels and programmes, combine, build the
\* tree, serialise and compress it
ScriptCombine ==
    /\ pc = "combine"
    /\ LET r   == FilterInChannels(inn.channels, EXCLUDE_LANGUAGES)
           fp  == RefilterProgrammes(inn.programmes, r.filtered_channels)
           chs == MergeChannels(uk.channels, au.channels, r.filtered_channels)
           ps  == uk.programmes \o au.programmes \o fp
       IN  /\ channels_dict' = inn.channels
           /\ exclude_languages' = EXCLUDE_LANGUAGES
           /\ filtered' = [done |-> TRUE, channels |-> r.filtered_channels]
           /\ excluded_count' = r.excluded_count
           /\ all_channels' = chs
           /\ all_programmes' = ps
           /\ combined_root' = CreateCombinedEpg(chs, ps)
    /\ pc' = "open"
    /\ UNCHANGED <<fetchVars, extractVars, uk, au, inn, file, error>>

\* open('epg.xml.gz', 'wb') creates or truncates the file
ScriptOpen ==
    /\ pc = "open"
    /\ file' = [file EXCEPT !.content = "empty"]
    /\ pc' = "write"
    /\ UNCHANGED <<fetchVars, extractVars, filterVars, uk, au, inn, all_channels,
                   all_programmes, combined_root, error>>

\* open raises OSError: the file is untouched
ScriptOpenFails ==
    /\ pc = "open"
    /\ pc' = "failed"
    /\ error' = [kind |-> "OSError", fn |-> "open", at |-> "open"]
    /\ UNCHANGED <<fetchVars, extractVars, filterVars, uk, au, inn, all_channels,
                   all_programmes, combined_root, file>>

\* what the file can hold once more of the data has, or has not, reached it:
\* the file object writes what the OS takes and keeps the rest in its buffer
FileProgress(c) ==
    IF c = "empty" THEN {"empty", "truncated", "new"}
    ELSE IF c = "truncated" THEN {"truncated", "new"}
    ELSE {"new"}

\* f.write(compressed_data) returns: the data is on the file, in the buffer
\* (data smaller than the buffer), or partly on the file and partly in the
\* buffer (the OS took a part of it); the size of the compressed data is not
\* modelled
ScriptWrite ==
    /\ pc = "write"
    /\ \E c \in FileProgress(file.content) : file' = [file EXCEPT !.content = c]
    /\ pc' = "close"
    /\ UNCHANGED <<fetchVars, extractVars, filterVars, uk, au, inn, all_channels,
                   all_programmes, combined_root, error>>

\* f.write raises OSError (a full disk, an I/O error) before or after a part
\* of the data is written; the with block closes the file
ScriptWriteFails ==
    /\ pc = "write"
    /\ \E c \in {"empty", "truncated"} : file' = [file EXCEPT !.content = c]
    /\ pc' = "failed"
    /\ error' = [kind |-> "OSError", fn |-> "write", at |-> "write"]
    /\ UNCHANGED <<fetchVars, extractVars, filterVars, uk, au, inn, all_channels,
                   all_programmes, combined_root>>

\* the end of the with block: the buffer is flushed and the file closed
ScriptClose ==
    /\ pc = "close"
    /\ file' = [file EXCEPT !.content = "new"]
    /\ pc' = "done"
    /\ UNCHANGED <<fetchVars, extractVars, filterVars, uk, au, inn, all_channels,
                   all_programmes, combined_root, error>>

\* the flush or the close at the end of the with block raises OSError: data
\* still in the buffer is lost or written in part, data already on the file
\* stays
ScriptCloseFails ==
    /\ pc = "close"
    /\ \E c \in FileProgress(file.content) : file' = [file EXCEPT !.content = c]
    /\ pc' = "failed"
    /\ error' = [kind |-> "OSError", fn |-> "close", at |-> "close"]
    /\ UNCHANGED <<fetchVars, extractVars, filterVars, uk, au, inn, all_channels,
                   all_programmes, combined_root>>

\* the process is killed inside the with block: before f.write, inside it,
\* between f.write and the end of the block, or inside the flush at the end;
\* the file keeps what the OS had taken by then
ScriptInterrupted ==
    /\ pc \in {"write", "close"}
    /\ \E c \in FileProgress(file.content) : file' = [file EXCEPT !.content = c]
    /\ pc' = "killed"
    /\ UNCHANGED <<fetchVars, extractVars, filterVars, uk, au, inn, all_channels,
                   all_programmes, combined_root, error>>

----------------------------------------------------------------------------
(* The script's variables before the script runs *)

ScriptIdle ==
    /\ pc = "idle" /\ uk = NotExtracted /\ au = NotExtracted /\ inn = NotExtracted
    /\ all_channels = EmptyDict /\ all_programmes = <<>>
    /\ combined_root = NoTree /\ file = [previous |-> "absent", content |-> "absent"]
    /\ error = NoError

----------------------------------------------------------------------------
(* Inputs *)

SeqsUpTo(S, n) == UNION {[1..k -> S] : k \in 0..n}

Ids == {"1", "2"}

\* the documents' channel lists: nothing keeps two channel elements of a
\* document from carrying the same id
ChannelLists(names) ==
    SeqsUpTo([id : Ids, names : names, src : {"uk"}], Cardinality(Ids))

Sky == <<83, 107, 121>>  \* "Sky"
Fox == <<70, 111, 120>>  \* "Fox"
\* "SKY" written with U+212A KELVIN SIGN, whose lowercase is "k"
SKelvinY == <<83, 8490, 89>>

----------------------------------------------------------------------------
(* fetch_epg on its own: max_retries and the server's answers are arbitrary *)

FetchTexts == {NoText, ShortText, XmlText(EmptyDoc)}

\* empty bytes are valid UTF-8; the text of undecodable bytes is never read
FetchResponses ==
    TransportFailures \cup
    {r \in OkResponses(FetchTexts) :
        /\ r.body.text.len = 0 => r.body.utf8
        /\ (r.body.gzip = "corrupt" \/ ~r.body.utf8) => r.body.text \in {NoText, ShortText}
        /\ r.body.gzip = "corrupt" => r.body.text = ShortText}

InitFetch ==
    /\ \E mr \in 0..MaxRetriesBound :
          /\ max_retries = mr /\ attempt = 0 /\ gets = 0 /\ sleeps = <<>>
          /\ responses = <<>> /\ fetch_state = "running" /\ fetch_result = NoText
    /\ ExtractIdle /\ FilterIdle /\ ScriptIdle

FetchStep ==
    /\ \E r \in FetchResponses : FetchAttempt(r)
    /\ UNCHANGED <<extractVars, filterVars, scriptVars>>

FetchFail ==
    /\ FetchRaise
    /\ UNCHANGED <<extractVars, filterVars, scriptVars>>

NextFetch == FetchStep \/ FetchFail

SpecFetch == InitFetch /\ [][NextFetch]_vars

\* An attempt that yields text: a 2xx answer whose body decodes, as a gzip
\* stream or as plain bytes.
Delivers(r) == r.kind = "ok" /\ r.body.gzip # "corrupt" /\ r.body.utf8

\* C3: fetch_epg never makes more than max_retries GETs; it reports failure
\* only after exactly max_retries attempts none of which yielded text; the
\* first attempt that yields text ends the call with that text; and after
\* each failed attempt except the max_retries-th it has slept 2^attempt
\* seconds (attempt counted from 0).
C3_BoundedRetry ==
    LET n      == Len(responses)
        failed == Cardinality({i \in 1..n : ~Delivers(responses[i])})
        slept  == IF failed = max_retries THEN failed - 1 ELSE failed
    IN  /\ gets <= max_retries
        /\ gets = n
        /\ fetch_state = "raised" =>
              gets = max_retries /\ \A i \in 1..n : ~Delivers(responses[i])
        /\ fetch_state = "returned" =>
              /\ n >= 1 /\ Delivers(responses[n])
              /\ \A i \in 1..(n - 1) : ~Delivers(responses[i])
              /\ fetch_result = responses[n].body.text
        /\ fetch_state = "running" => \A i \in 1..n : ~Delivers(responses[i])
        /\ sleeps = [i \in 1..slept |-> 2 ^ (i - 1)]

C3_Witness ==
    /\ fetch_state = "raised" /\ max_retries = DefaultMaxRetries
    /\ gets = DefaultMaxRetries /\ sleeps = <<1, 2>>

\* C10: every attempt that receives a 2xx response returns the body as text
\* on that same attempt: a decoding failure consumes no retry and never
\* leads to a failed fetch.
C10_DecodeFallbackNeverFails ==
    \A i \in 1..Len(responses) :
        responses[i].kind = "ok" => (i = Len(responses) /\ fetch_state = "returned")

----------------------------------------------------------------------------
(* extract_channels_and_programmes on its own *)

ExtractNames == {<<>>, SKelvinY, Fox}

ExtractKeywordPool == {<<75, 121>>, <<>>}  \* "Ky", ""

KeywordChoices ==
    {NoKeywords} \cup {Keywords(l) : l \in SeqsUpTo(ExtractKeywordPool, MaxKeywords)}

\* 2024-01-05 00:00:00.000000 and 2024-02-26 12:30:15.000500
NowPool == {<<2024, 1, 5, 0, 0, 0, 0>>, <<2024, 2, 26, 12, 30, 15, 500>>}

StartPool ==
    { <<50, 48, 50, 52, 48, 49, 48, 53, 48, 48, 48, 48>>,  \* "202401050000"
      <<50, 48, 50, 52, 48, 49, 49, 50, 48, 48, 48, 48, 48, 48, 32, 43, 48, 48, 48, 48>>,  \* "20240112000000 +0000"
      <<50, 48, 50, 52, 48, 49, 49, 50, 48, 48, 48, 49>>,  \* "202401120001"
      <<50, 48, 50, 52, 48, 49, 48, 52, 50, 51, 53, 57>>,  \* "202401042359"
      <<50, 48, 50, 52, 48, 51, 48, 52, 49, 50, 51, 48>>,  \* "202403041230"
      <<50, 48, 50, 52, 48, 50, 50, 54, 49, 50, 51, 48>>,  \* "202402261230"
      <<50, 48, 50, 52>>,  \* "2024"
      <<50, 48, 50, 52, 88, 88, 48, 49, 48, 48, 48, 48>>,  \* "2024XX010000"
      <<50, 48, 50, 52, 48, 50, 51, 48, 48, 48, 48, 48>>,  \* "202402300000"
      <<50, 48, 50, 52, 48, 49, 32, 54, 48, 48, 48, 48>>,  \* "202401 60000"
      \* "202401050500", the second digit of the hour U+0665 ARABIC-INDIC FIVE
      <<50, 48, 50, 52, 48, 49, 48, 53, 48, 1637, 48, 48>>,
      \* "202401050000", the first digit of the month U+0660 ARABIC-INDIC ZERO
      <<50, 48, 50, 52, 1632, 49, 48, 53, 48, 48, 48, 48>> }

\* every start on channel "1", two of them on channel "2" as well
ProgrammePool ==
    [channel : {"1"}, start : StartPool, src : {"uk"}] \cup
    [channel : {"2"},
     start : { <<50, 48, 50, 52, 48, 49, 48, 53, 48, 48, 48, 48>>,  \* "202401050000"
               <<50, 48, 50, 52, 88, 88, 48, 49, 48, 48, 48, 48>> },  \* "2024XX010000"
     src : {"uk"}]

\* many channels and keyword lists, no programmes
ChannelInputs ==
    {[root |-> [channels |-> cs, programmes |-> <<>>], kw |-> kw, now |-> <<2024, 1, 5, 0, 0, 0, 0>>] :
        cs \in ChannelLists(SeqsUpTo(ExtractNames, MaxNames)), kw \in KeywordChoices}

\* many programmes, few channels
ProgrammeInputs ==
    {[root |-> [channels |-> cs, programmes |-> ps], kw |-> kw, now |-> nw] :
        cs \in {<<>>,
                <<[id |-> "1", names |-> <<Sky>>, src |-> "uk"]>>,
                <<[id |-> "2", names |-> <<Fox>>, src |-> "uk"],
                  [id |-> "1", names |-> <<Sky>>, src |-> "uk"]>>},
        ps \in SeqsUpTo(ProgrammePool, MaxProgrammes),
        kw \in {NoKeywords, Keywords(<<<<115, 107, 121>>>>)},  \* "sky"
        nw \in NowPool}

InitExtract ==
    /\ \E inp \in ChannelInputs \cup ProgrammeInputs :
          /\ root = inp.root /\ channel_keywords = inp.kw /\ now = inp.now
    /\ extracted = NotExtracted
    /\ FetchIdle /\ FilterIdle /\ ScriptIdle

ExtractStep ==
    /\ ExtractCall
    /\ UNCHANGED <<fetchVars, filterVars, scriptVars>>

NextExtract == ExtractStep

SpecExtract == InitExtract /\ [][NextExtract]_vars

Reverse(s) == [i \in 1..Len(s) |-> s[Len(s) + 1 - i]]

ChannelMatches(ch, kws) ==
    \E n \in 1..Len(ch.names) : \E k \in 1..Len(kws) :
        ch.names[n] # <<>> /\ StrIn(StrLower(kws[k]), StrLower(ch.names[n]))

\* the claim's criterion for one channel element
SelectedByClaim(ch) ==
    channel_keywords.none \/ ChannelMatches(ch, channel_keywords.list)

\* the positions of the document's channel elements that carry the id and
\* meet the criterion
Candidates(id) ==
    {i \in 1..Len(root.channels) :
        root.channels[i].id = id /\ SelectedByClaim(root.channels[i])}

Last(S) == CHOOSE i \in S : \A j \in S : j <= i

\* the document with the names of every channel reversed, selected under the
\* reversed keyword list
ReversedSelection ==
    SelectChannels(
        [i \in 1..Len(root.channels) |-> [root.channels[i] EXCEPT !.names = Reverse(@)]],
        [channel_keywords EXCEPT !.list = Reverse(@)], EmptyDict)

\* C7, as stated: with channel_keywords None every channel is selected;
\* otherwise a channel is selected (its id is a key of the mapping, and the
\* key maps to that channel) iff one of its display names contains one of the
\* keywords, case-insensitively; reversing the keywords or the names of every
\* channel selects the same channels; a channel without a non-empty display
\* name is not selected under a keyword list.
C7_ChannelSelection ==
    extracted.status # "none" =>
        /\ \A i \in 1..Len(root.channels) :
              LET ch == root.channels[i] IN
              /\ DictHas(extracted.channels, ch.id) <=> SelectedByClaim(ch)
              /\ DictHas(extracted.channels, ch.id) => DictGet(extracted.channels, ch.id) = ch
              /\ (~channel_keywords.none /\ \A n \in 1..Len(ch.names) : ch.names[n] = <<>>)
                    => ~DictHas(extracted.channels, ch.id)
        /\ DictKeys(extracted.channels) \subseteq {root.channels[i].id : i \in 1..Len(root.channels)}
        /\ DictKeys(extracted.channels) = DictKeys(ReversedSelection)

\* C7, amended: an id is a key of the mapping iff some channel element with
\* that id meets the criterion (any element when channel_keywords is None,
\* otherwise one with a display name that contains a keyword,
\* case-insensitively), and the key maps to the last such element of the
\* document; reversing the keywords and the names of every channel selects
\* the same elements; an element without a non-empty display name is never
\* the value of a key under a keyword list.
C7_SelectionByKey ==
    extracted.status # "none" =>
        LET reversed == ReversedSelection IN
        /\ \A id \in Ids :
              LET candidates == Candidates(id) IN
              /\ DictHas(extracted.channels, id) <=> candidates # {}
              /\ candidates # {} =>
                    DictGet(extracted.channels, id) = root.channels[Last(candidates)]
        /\ \A i, j \in 1..Len(extracted.channels) :
              i # j => extracted.channels[i].k # extracted.channels[j].k
        /\ DictKeys(extracted.channels) = DictKeys(reversed)
        /\ \A k \in DictKeys(extracted.channels) :
              DictGet(reversed, k).names = Reverse(DictGet(extracted.channels, k).names)
        /\ ~channel_keywords.none =>
              \A k \in DictKeys(extracted.channels) :
                  \E n \in 1..Len(DictGet(extracted.channels, k).names) :
                      DictGet(extracted.channels, k).names[n] # <<>>

\* two elements with one id both meet a keyword, one of them by a name that
\* matches only after lowercasing a non-ASCII letter; the later one is kept
C7_Witness ==
    /\ extracted.status = "ok" /\ ~channel_keywords.none
    /\ Len(channel_keywords.list) = 2
    /\ Len(root.channels) = 2 /\ root.channels[1].id = root.channels[2].id
    /\ root.channels[1] # root.channels[2]
    /\ Len(root.channels[1].names) = 2
    /\ Candidates(root.channels[1].id) = {1, 2}
    /\ \E n \in 1..Len(root.channels[2].names) : root.channels[2].names[n] = SKelvinY
    /\ DictGet(extracted.channels, root.channels[2].id) = root.channels[2]

\* the claim's programme filter
RetainedByClaim(p) ==
    /\ DictHas(extracted.channels, p.channel)
    /\ \/ Len(p.start) < MinStartLen
       \/ ~Strptime(SubSeq(p.start, 1, 12)).ok
       \/ InWindow(Strptime(SubSeq(p.start, 1, 12)).dt, now)

\* C9: extraction never aborts on a start attribute, and it retains exactly
\* the programmes on a selected channel whose start is inside
\* [now, now + 7 days], is shorter than 12 characters or does not parse.
C9_ProgrammeSelection ==
    extracted.status # "none" =>
        /\ extracted.status = "ok"
        /\ extracted.programmes = SelectSeq(root.programmes, RetainedByClaim)

----------------------------------------------------------------------------
(* filter_in_channels on its own *)

FilterNames == {<<>>, <<84, 97>>, <<109, 73, 108>>}  \* "Ta", "mIl"

FilterLanguagePool == {<<116, 97, 109, 105, 108>>, <<77, 73, 76>>, <<>>}  \* "tamil", "MIL"

DistinctKeys(d) == \A i, j \in 1..Len(d) : i # j => d[i].k # d[j].k

FilterDicts ==
    {d \in SeqsUpTo([k : Ids, v : [id : Ids, names : SeqsUpTo(FilterNames, MaxNames), src : {"in"}]],
                    Cardinality(Ids)) :
        DistinctKeys(d) /\ \A i \in 1..Len(d) : d[i].v.id = d[i].k}

InitFilter ==
    /\ channels_dict \in FilterDicts
    /\ exclude_languages \in SeqsUpTo(FilterLanguagePool, MaxKeywords)
    /\ filtered = [done |-> FALSE, channels |-> EmptyDict] /\ excluded_count = 0
    /\ FetchIdle /\ ExtractIdle /\ ScriptIdle

FilterStep ==
    /\ FilterCall
    /\ UNCHANGED <<fetchVars, extractVars, scriptVars>>

NextFilter == FilterStep

SpecFilter == InitFilter /\ [][NextFilter]_vars

RECURSIVE Concat(_)
Concat(ss) == IF ss = <<>> THEN <<>> ELSE Head(ss) \o Concat(Tail(ss))

ConcatHasLanguage(ch) ==
    \E i \in 1..Len(exclude_languages) :
        StrIn(StrLower(exclude_languages[i]), StrLower(Concat(ch.names)))

SomeNameHasLanguage(ch) ==
    \E n \in 1..Len(ch.names) : \E i \in 1..Len(exclude_languages) :
        ch.names[n] # <<>> /\ StrIn(StrLower(exclude_languages[i]), StrLower(ch.names[n]))

KeptByConcat(item) == ~ConcatHasLanguage(item.v)

KeptByName(item) == ~SomeNameHasLanguage(item.v)

\* C8 as stated: the result is channels_dict without the channels whose
\* concatenated display names contain an exclusion keyword
\* (case-insensitively), in the same order with the same objects, and the
\* count reported is the number of channels removed.
C8_ExclusionByConcatenation ==
    filtered.done =>
        /\ filtered.channels = SelectSeq(channels_dict, KeptByConcat)
        /\ excluded_count = Len(channels_dict) - Len(filtered.channels)

\* C8 amended: the result is channels_dict without the channels one of whose
\* non-empty display names, taken on its own, contains an exclusion keyword
\* (case-insensitively), in the same order with the same objects, and the
\* count reported is the number of channels removed.
C8_ExclusionByName ==
    filtered.done =>
        /\ filtered.channels = SelectSeq(channels_dict, KeptByName)
        /\ excluded_count = Len(channels_dict) - Len(filtered.channels)

C8_Witness ==
    /\ filtered.done /\ Len(channels_dict) = 2
    /\ excluded_count = 1 /\ Len(filtered.channels) = 1
    /\ \E i \in 1..2 : ConcatHasLanguage(channels_dict[i].v) /\ ~SomeNameHasLanguage(channels_dict[i].v)

----------------------------------------------------------------------------
(* The whole script: what the three servers answer is arbitrary *)

SkyFox == <<83, 107, 121, 32, 70, 111, 120>>  \* "Sky Fox"
FoxTamil == <<70, 111, 120, 32, 84, 97, 109, 105, 108>>  \* "Fox Tamil"

ScriptNow == <<2024, 1, 5, 0, 0, 0, 0>>

ScriptStarts ==
    { <<50, 48, 50, 52, 48, 49, 48, 53, 48, 48, 48, 48>>,  \* "202401050000"
      <<50, 48, 50, 52, 48, 49, 48, 52, 50, 51, 53, 57>>,  \* "202401042359"
      <<50, 48, 50, 52, 88, 88, 48, 49, 48, 48, 48, 48>> }  \* "2024XX010000"

ScriptDocs ==
    {[channels |-> cs, programmes |-> ps] :
        cs \in ChannelLists({<<SkyFox>>, <<FoxTamil>>}),
        ps \in SeqsUpTo([channel : Ids, start : ScriptStarts, src : {"uk"}], 1)}

ScriptTexts == {ShortText, ShortXml, MalformedText} \cup {XmlText(d) : d \in ScriptDocs}

\* a 5xx answer, a truncated gzip stream, or a text, gzipped or plain
ScriptResponses ==
    {[kind |-> "status"],
     [kind |-> "ok", body |-> [gzip |-> "corrupt", utf8 |-> TRUE, text |-> ShortText]]}
    \cup {[kind |-> "ok", body |-> [gzip |-> "valid", utf8 |-> TRUE, text |-> t]] :
            t \in ScriptTexts}
    \cup {[kind |-> "ok", body |-> [gzip |-> "none", utf8 |-> TRUE, text |-> MalformedText]]}

Init ==
    /\ max_retries = DefaultMaxRetries /\ attempt = 0 /\ gets = 0 /\ sleeps = <<>>
    /\ responses = <<>> /\ fetch_state = "running" /\ fetch_result = NoText
    /\ ExtractIdle /\ FilterIdle
    /\ pc = "uk" /\ uk = NotExtracted /\ au = NotExtracted /\ inn = NotExtracted
    /\ all_channels = EmptyDict /\ all_programmes = <<>>
    /\ combined_root = NoTree
    /\ \E prev \in {"absent", "valid"} :
          file = [previous |-> prev, content |-> IF prev = "valid" THEN "previous" ELSE "absent"]
    /\ error = NoError

Retry == \E r \in ScriptResponses : ScriptFetchRetry(r)

Fetched == \E r \in ScriptResponses : ScriptFetched(r, ScriptNow)

Next ==
    \/ Retry
    \/ Fetched
    \/ ScriptFetchFailed
    \/ ScriptCombine
    \/ ScriptOpen
    \/ ScriptOpenFails
    \/ ScriptWrite
    \/ ScriptWriteFails
    \/ ScriptClose
    \/ ScriptCloseFails
    \/ ScriptInterrupted

Spec == Init /\ [][Next]_vars

\* C1: once the script has combined the sources, every programme of
\* all_programmes, and so every programme element of the tree handed to the
\* writer, names a channel that is a key of all_channels (a channel element
\* of the tree).
C1_ReferentialIntegrity ==
    filtered.done =>
        /\ \A i \in 1..Len(all_programmes) :
              all_programmes[i].channel \in DictKeys(all_channels)
        /\ \A i \in 1..Len(combined_root.programmes) :
              \E j \in 1..Len(combined_root.channels) :
                  combined_root.channels[j].id = combined_root.programmes[i].channel

\* the sources share an identifier, and the filter removed an IN channel that
\* had a programme
C1_Witness ==
    /\ filtered.done /\ all_programmes # <<>>
    /\ excluded_count >= 1
    /\ \E i \in 1..Len(inn.programmes) :
          /\ ~DictHas(filtered.channels, inn.programmes[i].channel)
          /\ DictHas(all_channels, inn.programmes[i].channel)
    /\ DictKeys(uk.channels) \cap DictKeys(au.channels) # {}

\* C2: a source whose fetch or parse fails contributes nothing and the
\* script goes on with the sources after it: the run never ends on a
\* source's fetch or parse error while a later source has not been tried.
C2_SourceFailureIsRecoverable ==
    (pc = "failed" /\ error.fn \in {"fetch_epg", "parse_epg"})
        => AfterSource(error.at) = "combine"

\* C4: the artifact is written only for a merged document with at least one
\* programme; with no programme the run fails and writes nothing.
C4_EmptyAggregateIsFatal ==
    /\ file.content = "new" => Len(combined_root.programmes) >= 1
    /\ pc = "done" => all_programmes # <<>>

\* C5: the file at the output path is always a complete artifact: the
\* previous one or the new one, never an empty or truncated file in the place
\* of a previous artifact.
C5_ArtifactIntegrity ==
    file.previous = "valid" => file.content \in {"previous", "new"}

RECURSIVE FromItems(_, _)
FromItems(items, acc) ==
    IF items = <<>> THEN acc
    ELSE FromItems(Tail(items), DictSet(acc, Head(items).k, Head(items).v))

FourthSources ==
    {EmptyDict} \cup
    {<<[k |-> i, v |-> [id |-> i, names |-> <<Sky>>, src |-> "d"]]>> : i \in Ids \cup {"3"}}

\* C6: all_channels has exactly the keys of the three sources' mappings (IN
\* after its exclusion filter), each mapped to the channel object of the last
\* of UK, AU, IN that has the key; folding the sources pairwise gives the same
\* mapping, and merging a fourth source into it gives the mapping of the four
\* merged at once.
C6_MergePrecedence ==
    filtered.done =>
        LET u == uk.channels
            a == au.channels
            f == filtered.channels
        IN  /\ DictKeys(all_channels) = DictKeys(u) \cup DictKeys(a) \cup DictKeys(f)
            /\ \A i, j \in 1..Len(all_channels) :
                  i # j => all_channels[i].k # all_channels[j].k
            /\ \A key \in DictKeys(all_channels) :
                  DictGet(all_channels, key) =
                      IF DictHas(f, key) THEN DictGet(f, key)
                      ELSE IF DictHas(a, key) THEN DictGet(a, key)
                      ELSE DictGet(u, key)
            /\ \A key \in DictKeys(all_channels) :
                  DictGet(all_channels, key).src =
                      IF DictHas(f, key) THEN "in"
                      ELSE IF DictHas(a, key) THEN "au" ELSE "uk"
            /\ all_channels = DictUpdate(DictUpdate(u, a), f)
            /\ \A d \in FourthSources :
                  DictUpdate(all_channels, d) = FromItems(u \o a \o f \o d, EmptyDict)

\* a key of all three sources, with different display names in UK and IN
C6_Witness ==
    /\ filtered.done
    /\ \E key \in Ids :
          /\ DictHas(uk.channels, key) /\ DictHas(au.channels, key)
          /\ DictHas(filtered.channels, key)
          /\ DictGet(au.channels, key).names # DictGet(filtered.channels, key).names
          /\ DictGet(all_channels, key).src = "in"
    /\ \E key \in Ids : ~DictHas(filtered.channels, key) /\ DictHas(au.channels, key)

====
